---- MODULE Spec2Model ----
(***************************************************************************)
(* Model of the WebSocket tunnel client of the Firewall365 agent           *)
(* (src/agent/tunnel.py): the SSHSession objects with their reader         *)
(* threads, the session registry TunnelClient.ssh_sessions, the message    *)
(* dispatch of TunnelClient._on_message and the reconnect loop of          *)
(* TunnelClient.run.                                                        *)
(*                                                                         *)
(* Threads.  TunnelClient.run, WebSocketApp.run_forever and the callbacks  *)
(* _on_message/_on_close run on one thread (position rpc).  Every          *)
(* SSHSession has its own reader thread (_read_loop, position sess[i].pc). *)
(* A handler of the run thread is one action; the reader thread is cut at  *)
(* the places where it touches state shared with the run thread: the read  *)
(* (while condition, select, os.read), the credential write, on_data, the  *)
(* send and membership test of _ssh_close_callback, and its del.           *)
(*                                                                         *)
(* None is 0 for master_fd and pid.  A descriptor number is the lowest     *)
(* one no session holds, as pty.fork allocates it.  The counters           *)
(* closeCalls, fdReleases, kills, cbCount and credWrites of a session      *)
(* count its close() calls, os.close, os.kill, on_close and credential     *)
(* os.write calls; winsz is the window size of the terminal behind its     *)
(* descriptor; ioFailed tells that an os.read or os.write of the session   *)
(* failed (a zero-length read included); writePending that the run thread  *)
(* is inside the os.write of its send(); target what the message that      *)
(* opened the session asked for besides a user name and a password; fdArg  *)
(* the value of self.master_fd the reader evaluated for its os.read.       *)
(***************************************************************************)
EXTENDS Integers, Sequences, FiniteSets, TLC

\* ------------------------------------------------------------------ bounds
\* Number of SSHSession objects a run of the model constructs.
MaxInst == 2
\* The same, for the runs in which one identifier is opened again and again.
MaxReuse == 3
\* Saturation of the observer counter of consecutive backoff sleeps.
MaxFails == 6
\* Largest number of path segments of a configured endpoint.
MaxSegs == 2

\* ------------------------------------------------------- program constants
\* self.reconnect_delay = 5
InitialDelay == 5
\* self.max_reconnect_delay = 60
MaxReconnectDelay == 60

\* Session identifiers carried by the server's messages.
Ids == {"s1", "s2"}
\* msg.get('sessionId') of a message that has no sessionId: None.
NoId == "None"
\* What a message can carry as its session identifier.
Keys == Ids \cup {NoId}
\* Kinds of chunk os.read can return: one holding 'assword:' and one not.
Chunks == {"prompt", "other"}

\* The SSHSession objects of a run, numbered in the order of construction.
Insts == 1..(IF MaxReuse > MaxInst THEN MaxReuse ELSE MaxInst)

VARIABLES
  sess,            \* the SSHSession objects, by construction order
  nInst,           \* number of SSHSession objects constructed so far
  ssh_sessions,    \* TunnelClient.ssh_sessions: key -> object (0: absent)
  running,         \* TunnelClient.running
  ws,              \* TunnelClient.ws: "none", or the state of its socket
  reconnect_delay, \* TunnelClient.reconnect_delay
  rpc,             \* position of the run thread
  sent,            \* number of frames written to the transport, modulo 2
  slept,           \* duration of the most recent time.sleep of run (0: none yet)
  fails,           \* backoff sleeps since the last 'connected' (saturating)
  endpoint,        \* the configured endpoint, as the sequence of its pieces
  ws_url           \* ws_url of the latest attempt of run (<<>>: none yet)

vars == <<sess, nInst, ssh_sessions, running, ws, reconnect_delay, rpc, sent,
          slept, fails, endpoint, ws_url>>

\* ---------------------------------------------------------------- helpers
Min(a, b) == IF a < b THEN a ELSE b

\* A slot no SSHSession has been constructed in yet.
FreeSess ==
  [sid |-> "-", running |-> FALSE, master_fd |-> 0, pid |-> 0,
   password_sent |-> FALSE, pc |-> "free", chunk |-> "none", winsz |-> 0,
   closeCalls |-> 0, fdReleases |-> 0, kills |-> 0,
   cbCount |-> 0, credWrites |-> 0, cascaded |-> FALSE, ioFailed |-> FALSE,
   writePending |-> FALSE, target |-> "none", fdArg |-> 0]

\* SSHSession.__init__: master_fd = None (0), pid = None (0), running = False,
\* thread = None, password_sent = False.
NewSess(x) == [FreeSess EXCEPT !.sid = x, !.pc = "init"]

\* Descriptors open in the process: those of sessions that hold one.
OpenFds == {sess[i].master_fd : i \in Insts} \ {0}

\* pty.fork returns the lowest descriptor number that is free.
LowestFreeFd == CHOOSE f \in 1..(Cardinality(Insts) + 1) :
                  /\ f \notin OpenFds
                  /\ \A g \in 1..(Cardinality(Insts) + 1) : g \notin OpenFds => f <= g

\* Positions of a reader thread that is alive (started, not returned).
ReaderPcs == {"head", "read", "inject", "fwd96", "fwd98", "cb", "cbdel"}

\* TunnelClient._send_message: if self.ws, ws.send; an exception of send (the
\* socket is closed) is logged and swallowed.
SendMessage(n) == IF ws = "open" THEN (n + 1) % 2 ELSE n

\* ------------------------------------------------------ SSHSession.close
\* close() that releases without looking at master_fd and pid.
SessionCloseUnguarded(s) ==
  [s EXCEPT !.running = FALSE, !.master_fd = 0, !.winsz = 0,
            !.fdReleases = @ + 1, !.pid = 0, !.kills = @ + 1,
            !.closeCalls = @ + 1]

\* close(): running = False; the descriptor is closed and forgotten if there
\* is one (fdReleases counts os.close); the child is sent SIGTERM, waitpid is
\* tried and the pid forgotten if there is one (kills counts os.kill).
SessionClose(s) ==
  [s EXCEPT !.running = FALSE,
            !.master_fd = 0,
            !.winsz = IF s.master_fd # 0 THEN 0 ELSE @,
            !.fdReleases = IF s.master_fd # 0 THEN @ + 1 ELSE @,
            !.pid = 0,
            !.kills = IF s.pid # 0 THEN @ + 1 ELSE @,
            !.closeCalls = @ + 1]

\* ------------------------------------------ TunnelClient._get_ws_url
\* A string is the sequence of its pieces: "/" and the pieces between the
\* slashes ("https:", "api", "s": "/apis" is <<"/", "api", "s">>).
\* fallback='https://opn.gruppen.com.br/api'
DefaultEndpoint == <<"https:", "/", "/", "host", "/", "api">>

\* Path segments an endpoint can have, each after a "/".
Segments == {<<"api">>, <<"v1">>, <<"api", "s">>}

\* Paths of n segments.
RECURSIVE PathsOf(_)
PathsOf(n) ==
  IF n = 0 THEN {<<>>}
  ELSE {p \o <<"/">> \o g : p \in PathsOf(n - 1), g \in Segments}

\* The endpoints of the configuration: http or https, a host whose name may
\* begin with "api", and a path of at most MaxSegs segments.
Endpoints ==
  {<<sch, "/", "/">> \o h \o p :
     sch \in {"http:", "https:"},
     h \in {<<"host">>, <<"api", "host">>},
     p \in UNION {PathsOf(n) : n \in 0..MaxSegs}}

\* str.replace(old, new): every occurrence of old, found from left to right
\* without overlap, becomes new.
RECURSIVE Replace(_, _, _)
Replace(s, old, new) ==
  IF Len(s) < Len(old) THEN s
  ELSE IF SubSeq(s, 1, Len(old)) = old
         THEN new \o Replace(SubSeq(s, Len(old) + 1, Len(s)), old, new)
         ELSE <<Head(s)>> \o Replace(Tail(s), old, new)

\* ws_base = endpoint.replace('https://', 'wss://').replace('http://', 'ws://')
\* ws_base = ws_base.replace('/api', '')
\* return f"{ws_base}/ws?type=agent&token={token}"
GetWsUrl(e, token) ==
  LET a == Replace(e, <<"https:", "/", "/">>, <<"wss:", "/", "/">>)
      b == Replace(a, <<"http:", "/", "/">>, <<"ws:", "/", "/">>)
      ws_base == Replace(b, <<"/", "api">>, <<>>)
  IN ws_base \o <<"/", "ws?type=agent&token=", token>>

\* The bearer_token the loop of run() runs with: run() returns before the
\* loop when it is empty.
Token == "tok"

TypeOK ==
  /\ nInst \in 0..Cardinality(Insts)
  /\ ssh_sessions \in [Keys -> {0} \cup Insts]
  /\ running \in BOOLEAN
  /\ ws \in {"none", "open", "closed"}
  /\ rpc \in {"start", "notoken", "loophead", "connect", "recv", "opening",
              "writing", "closed", "ended"}
  /\ fails \in 0..MaxFails
  /\ endpoint \in Endpoints

Init ==
  /\ sess = [i \in Insts |-> FreeSess]
  /\ nInst = 0
  /\ ssh_sessions = [x \in Keys |-> 0]
  /\ running = TRUE
  /\ ws = "none"
  /\ reconnect_delay = InitialDelay
  /\ rpc = "loophead"
  /\ sent = 0
  /\ slept = 0
  /\ fails = 0
  /\ endpoint = DefaultEndpoint
  /\ ws_url = <<>>

\* ------------------------------------------------- the run thread: run()
\* The state in which run() is called.
InitStart ==
  /\ sess = [i \in Insts |-> FreeSess]
  /\ nInst = 0
  /\ ssh_sessions = [x \in Keys |-> 0]
  /\ running = TRUE
  /\ ws = "none"
  /\ reconnect_delay = InitialDelay
  /\ rpc = "start"
  /\ sent = 0
  /\ slept = 0
  /\ fails = 0
  /\ endpoint = DefaultEndpoint
  /\ ws_url = <<>>

\* The bearer_token of the configuration __init__ loaded: absent or empty
\* (fallback ''), or set.
Tokens == {"", "tok"}

\* token = self.config.get(...); if not token: logger.error(...); return
RunStart ==
  /\ rpc = "start"
  /\ \E token \in Tokens : rpc' = IF token = "" THEN "notoken" ELSE "loophead"
  /\ UNCHANGED <<sess, nInst, ssh_sessions, running, ws, reconnect_delay, sent,
                 slept, fails>>
  /\ UNCHANGED <<endpoint, ws_url>>

\* A loop that gives up after a failed attempt.
RunLoopHeadGivesUp ==
  /\ rpc = "loophead"
  /\ rpc' = IF running /\ fails = 0 THEN "connect" ELSE "ended"
  /\ UNCHANGED <<sess, nInst, ssh_sessions, running, ws, reconnect_delay, sent,
                 slept, fails>>
  /\ UNCHANGED <<endpoint, ws_url>>

\* while self.running:
RunLoopHead ==
  /\ rpc = "loophead"
  /\ rpc' = IF running THEN "connect" ELSE "ended"
  /\ UNCHANGED <<sess, nInst, ssh_sessions, running, ws, reconnect_delay, sent,
                 slept, fails>>
  /\ UNCHANGED <<endpoint, ws_url>>

\* for session in list(self.ssh_sessions.values()): session.close()
ClosedAll ==
  [i \in Insts |->
     IF \E x \in Ids : ssh_sessions[x] = i
       THEN [SessionClose(sess[i]) EXCEPT !.cascaded = TRUE]
       ELSE sess[i]]

\* _on_close without the clear().
NotCleared == ssh_sessions

\* self.ssh_sessions.clear()
Cleared == [x \in Keys |-> 0]

\* self.ws = WebSocketApp(...); self.ws.run_forever(...).  Either the
\* connection is established and run_forever starts to receive, or the
\* attempt fails and run_forever returns after _on_error and _on_close.
RunConnect ==
  /\ rpc = "connect"
  /\ \/ /\ ws' = "open"
        /\ rpc' = "recv"
        /\ UNCHANGED <<sess, ssh_sessions>>
     \/ /\ ws' = "closed"
        /\ rpc' = "closed"
        /\ sess' = ClosedAll
        /\ ssh_sessions' = Cleared
  /\ UNCHANGED <<nInst, running, reconnect_delay, sent, slept, fails>>
  /\ ws_url' = GetWsUrl(endpoint, Token)
  /\ UNCHANGED endpoint

\* Transport loss while receiving: run_forever calls _on_close and returns.
OnClose ==
  /\ rpc = "recv"
  /\ sess' = ClosedAll
  /\ ssh_sessions' = Cleared
  /\ ws' = "closed"
  /\ rpc' = "closed"
  /\ UNCHANGED <<nInst, running, reconnect_delay, sent, slept, fails>>
  /\ UNCHANGED <<endpoint, ws_url>>

\* Doubling without the ceiling.
NextDelayNoCap(d) == d * 2

\* min(self.reconnect_delay * 2, self.max_reconnect_delay)
NextDelay(d) == Min(d * 2, MaxReconnectDelay)

\* if self.running: time.sleep(self.reconnect_delay); reconnect_delay = min(..)
Backoff ==
  /\ rpc = "closed"
  /\ IF running
       THEN /\ slept' = reconnect_delay
            /\ reconnect_delay' = NextDelay(reconnect_delay)
            /\ fails' = Min(fails + 1, MaxFails)
       ELSE UNCHANGED <<slept, reconnect_delay, fails>>
  /\ rpc' = "loophead"
  /\ UNCHANGED <<sess, nInst, ssh_sessions, running, ws, sent>>
  /\ UNCHANGED <<endpoint, ws_url>>

\* TunnelClient.stop, from the signal handler: running = False; ws.close().
Stop ==
  /\ running
  /\ rpc # "ended"
  /\ running' = FALSE
  /\ ws' = IF ws = "none" THEN "none" ELSE "closed"
  /\ UNCHANGED <<sess, nInst, ssh_sessions, reconnect_delay, rpc, sent, slept,
                 fails>>
  /\ UNCHANGED <<endpoint, ws_url>>

\* --------------------------------------- the run thread: _on_message
\* run_forever hands over a message only while the socket is open.
Receiving == rpc = "recv" /\ ws = "open"

\* The delay a 'connected' message sets.
DelayOnConnected == InitialDelay

\* msg_type == 'connected'
MsgConnected ==
  /\ Receiving
  /\ reconnect_delay' = DelayOnConnected
  /\ fails' = 0
  /\ UNCHANGED <<sess, nInst, ssh_sessions, running, ws, rpc, sent, slept>>
  /\ UNCHANGED <<endpoint, ws_url>>

\* _open_ssh_session without the membership test.
NeverExists(x) == FALSE

\* if session_id in self.ssh_sessions
AlreadyExists(x) == ssh_sessions[x] # 0

\* msg_type == 'ssh_open', up to the construction of the SSHSession (the
\* run constructs at most cap of them).
MsgOpen(x, cap) ==
  /\ Receiving
  /\ IF AlreadyExists(x)
       THEN UNCHANGED <<sess, nInst, rpc>>
       ELSE /\ nInst < cap
            /\ nInst' = nInst + 1
            /\ sess' = [sess EXCEPT ![nInst + 1] = NewSess(x)]
            /\ rpc' = "opening"
  /\ UNCHANGED <<ssh_sessions, running, ws, reconnect_delay, sent, slept, fails>>
  /\ UNCHANGED <<endpoint, ws_url>>

\* What an ssh_open message can carry besides sessionId, username and
\* password: nothing, or the host and port of a raw TCP target.
Targets == {"none", "hostport"}

\* msg_type == 'ssh_open' for a message with the target t: the branch reads
\* sessionId, username and password with msg.get and nothing else, so the
\* SSHSession is constructed as for any other open message.
MsgOpenTarget(x, t, cap) ==
  /\ Receiving
  /\ IF AlreadyExists(x)
       THEN UNCHANGED <<sess, nInst, rpc>>
       ELSE /\ nInst < cap
            /\ nInst' = nInst + 1
            /\ sess' = [sess EXCEPT ![nInst + 1] = [NewSess(x) EXCEPT !.target = t]]
            /\ rpc' = "opening"
  /\ UNCHANGED <<ssh_sessions, running, ws, reconnect_delay, sent, slept, fails>>
  /\ UNCHANGED <<endpoint, ws_url>>

\* SSHSession.connect succeeded: pty.fork gave a child and a descriptor, the
\* reader thread runs.
Connected(s, fd, p) ==
  [s EXCEPT !.pid = p, !.master_fd = fd, !.running = TRUE, !.pc = "head"]

\* SSHSession.connect raised in pty.fork: nothing was allocated.
ForkFailed(s) == [s EXCEPT !.pc = "nothread"]

\* SSHSession.connect raised when creating or starting the thread: the child,
\* the descriptor and running = True stay, there is no reader.
ThreadFailed(s, fd, p) ==
  [s EXCEPT !.pid = p, !.master_fd = fd, !.running = TRUE, !.pc = "nothread"]

\* The logging line of connect after thread.start(): self.session_id[:8]
\* raises TypeError when the identifier is None, and connect returns False
\* through its handler with the child forked and the reader started.
LogRaises(x) == x = NoId

\* if session.connect(): register, else send ssh_error.
OpenConnect ==
  /\ rpc = "opening"
  /\ LET i == nInst
         x == sess[i].sid
     IN \/ /\ sess' = [sess EXCEPT ![i] = Connected(@, LowestFreeFd, i)]
           /\ IF LogRaises(x)
                THEN /\ sent' = SendMessage(sent)
                     /\ UNCHANGED ssh_sessions
                ELSE /\ ssh_sessions' = [ssh_sessions EXCEPT ![x] = i]
                     /\ UNCHANGED sent
        \/ /\ sess' = [sess EXCEPT ![i] = ForkFailed(@)]
           /\ sent' = SendMessage(sent)
           /\ UNCHANGED ssh_sessions
        \/ /\ sess' = [sess EXCEPT ![i] = ThreadFailed(@, LowestFreeFd, i)]
           /\ sent' = SendMessage(sent)
           /\ UNCHANGED ssh_sessions
  /\ rpc' = "recv"
  /\ UNCHANGED <<nInst, running, ws, reconnect_delay, slept, fails>>
  /\ UNCHANGED <<endpoint, ws_url>>

\* SSHSession.send: the guard of the write.
CanSend(s) == s.master_fd # 0 /\ s.running

\* os.write raised in send(): the handler logs and calls close().
SendFailed(s) == [SessionClose(s) EXCEPT !.ioFailed = TRUE]

\* What the data field of an ssh_data message can hold: base64 text, and
\* text with incorrect padding.
Payloads == {"b64", "badpad"}

\* A decoder that returns bytes for every text.
DecodesAll(p) == TRUE

\* base64.b64decode(data) returns; otherwise it raises binascii.Error.
Decodes(p) == p = "b64"

\* msg_type == 'ssh_data' with the data field p: for a registered session,
\* b64decode, whose exception ends the handler in its except clause, then
\* send(); os.write either succeeds or raises, and then send() calls close().
DataMessage(x, p) ==
  /\ Receiving
  /\ LET i == ssh_sessions[x]
     IN IF i # 0 /\ Decodes(p) /\ CanSend(sess[i])
          THEN \/ UNCHANGED sess
               \/ sess' = [sess EXCEPT ![i] = SendFailed(@)]
          ELSE UNCHANGED sess
  /\ UNCHANGED <<nInst, ssh_sessions, running, ws, reconnect_delay, rpc, sent,
                 slept, fails>>
  /\ UNCHANGED <<endpoint, ws_url>>

\* msg_type == 'ssh_data'
MsgData(x) == \E p \in Payloads : DataMessage(x, p)

\* msg_type == 'ssh_data' up to the os.write of send(): the descriptor is a
\* blocking one, and the call does not return while the input queue of the
\* terminal is full.
DataWriteBegin(x) ==
  /\ Receiving
  /\ ssh_sessions[x] # 0 /\ CanSend(sess[ssh_sessions[x]])
  /\ sess' = [sess EXCEPT ![ssh_sessions[x]].writePending = TRUE]
  /\ rpc' = "writing"
  /\ UNCHANGED <<nInst, ssh_sessions, running, ws, reconnect_delay, sent, slept,
                 fails>>
  /\ UNCHANGED <<endpoint, ws_url>>

\* The os.write returns, or raises and send() calls close(); _on_message
\* returns to run_forever.
DataWriteEnd ==
  /\ rpc = "writing"
  /\ \E i \in Insts :
       /\ sess[i].writePending
       /\ \/ sess' = [sess EXCEPT ![i].writePending = FALSE]
          \/ sess' = [sess EXCEPT ![i] = [SendFailed(@) EXCEPT !.writePending = FALSE]]
  /\ rpc' = "recv"
  /\ UNCHANGED <<nInst, ssh_sessions, running, ws, reconnect_delay, sent, slept,
                 fails>>
  /\ UNCHANGED <<endpoint, ws_url>>

\* Messages no branch of _on_message handles: text that is not JSON, JSON
\* that is not an object, an object with an unknown type or with none.
Envelopes == {"notjson", "notobject", "unknowntype", "notype"}

\* The types _on_message has a branch for.
HandledTypes ==
  {"connected", "ssh_open", "ssh_data", "ssh_resize", "ssh_close", "ping"}

\* json.loads(message) and msg.get('type'): the type, "None" when the object
\* has none, "raise" when json.loads raises ValueError or msg has no get.
MsgType(m) ==
  CASE m = "notjson" -> "raise"
    [] m = "notobject" -> "raise"
    [] m = "notype" -> "None"
    [] OTHER -> "bogus"

\* _on_message for such a message: the exception is caught and logged by
\* the except clause, an unhandled type falls through the elif chain.
MsgOther(m) ==
  /\ Receiving
  /\ MsgType(m) \notin HandledTypes
  /\ UNCHANGED vars

\* Terminal heights a resize message carries.
Rows == {40}

\* resize without the test of master_fd.
SessionResizeUnguarded(s, r) == [s EXCEPT !.winsz = r]

\* SSHSession.resize: TIOCSWINSZ on the descriptor if there is one.
SessionResize(s, r) == IF s.master_fd # 0 THEN [s EXCEPT !.winsz = r] ELSE s

\* msg_type == 'ssh_resize'
MsgResize(x) ==
  /\ Receiving
  /\ LET i == ssh_sessions[x]
     IN IF i # 0
          THEN \E r \in Rows : sess' = [sess EXCEPT ![i] = SessionResize(@, r)]
          ELSE UNCHANGED sess
  /\ UNCHANGED <<nInst, ssh_sessions, running, ws, reconnect_delay, rpc, sent,
                 slept, fails>>
  /\ UNCHANGED <<endpoint, ws_url>>

\* msg_type == 'ssh_close': close() and del for a registered session.
MsgClose(x) ==
  /\ Receiving
  /\ LET i == ssh_sessions[x]
     IN IF i # 0
          THEN /\ sess' = [sess EXCEPT ![i] = SessionClose(@)]
               /\ ssh_sessions' = [ssh_sessions EXCEPT ![x] = 0]
          ELSE UNCHANGED <<sess, ssh_sessions>>
  /\ UNCHANGED <<nInst, running, ws, reconnect_delay, rpc, sent, slept, fails>>
  /\ UNCHANGED <<endpoint, ws_url>>

\* The levels of the records the ssh_close branch logs for the key x: that
\* of SSHSession.close for a registered session; for a key that is not in
\* the registry the branch reaches no logging call.
CloseLogs(x) == IF ssh_sessions[x] # 0 THEN {"info"} ELSE {}

\* msg_type == 'ping': ws.send(pong)
MsgPing ==
  /\ Receiving
  /\ sent' = SendMessage(sent)
  /\ UNCHANGED <<sess, nInst, ssh_sessions, running, ws, reconnect_delay, rpc,
                 slept, fails>>
  /\ UNCHANGED <<endpoint, ws_url>>

\* ------------------------------------- the reader threads: _read_loop
\* The prompt test without the password_sent flag.
NeedsInjectEveryPrompt(s, c) == c = "prompt"

\* if not self.password_sent and (b'assword:' in data or b'assword for' in data)
NeedsInject(s, c) == ~s.password_sent /\ c = "prompt"

\* The reader leaves the loop: by the while condition, or by
\* self.running = False; break in one of the handlers of lines 99-110.
ReaderStops(s) == [s EXCEPT !.running = FALSE, !.chunk = "none", !.pc = "cb"]

\* os.read returned b'' or raised: running = False; break.
ReadFailed(s) == [ReaderStops(s) EXCEPT !.ioFailed = TRUE]

\* A loop that puts the chunk aside and goes on reading.
ReaderGotAside(s, c) == [s EXCEPT !.chunk = c, !.pc = "head"]

\* os.read returned the chunk c: the branch of line 92.
ReaderGot(s, c) ==
  [s EXCEPT !.chunk = c, !.pc = IF NeedsInject(s, c) THEN "inject" ELSE "fwd98"]

\* One turn of the loop up to the read: the while condition, select, os.read.
\* With running False or master_fd None (close() ran) the loop ends.
\* Otherwise: nothing readable within the timeout (the turn changes
\* nothing); a chunk; or a zero-length read or an OSError, which end the loop.
ReaderRead(i) ==
  /\ sess[i].pc = "head"
  /\ IF sess[i].running /\ sess[i].master_fd # 0
       THEN \/ \E c \in Chunks : sess' = [sess EXCEPT ![i] = ReaderGot(@, c)]
            \/ sess' = [sess EXCEPT ![i] = ReadFailed(@)]
       ELSE sess' = [sess EXCEPT ![i] = ReaderStops(@)]
  /\ UNCHANGED <<nInst, ssh_sessions, running, ws, reconnect_delay, rpc, sent,
                 slept, fails>>
  /\ UNCHANGED <<endpoint, ws_url>>

\* The turn of the loop up to the argument of os.read: the while condition
\* holds, select returned the descriptor, and self.master_fd is evaluated
\* for the call of line 90.  With running False or master_fd None the loop
\* ends.
ReaderLoadFd(i) ==
  /\ sess[i].pc = "head"
  /\ IF sess[i].running /\ sess[i].master_fd # 0
       THEN sess' = [sess EXCEPT ![i].pc = "read", ![i].fdArg = sess[i].master_fd]
       ELSE sess' = [sess EXCEPT ![i] = ReaderStops(@)]
  /\ UNCHANGED <<nInst, ssh_sessions, running, ws, reconnect_delay, rpc, sent,
                 slept, fails>>
  /\ UNCHANGED <<endpoint, ws_url>>

\* os.read(fd, 4096) with the number evaluated before: on a number that is
\* open in the process it returns a chunk, or b'' or an error; on a closed
\* number it raises OSError (EBADF), which ends the loop.
ReaderReadFd(i) ==
  /\ sess[i].pc = "read"
  /\ IF sess[i].fdArg \in OpenFds
       THEN \/ \E c \in Chunks : sess' = [sess EXCEPT ![i] = ReaderGot(@, c)]
            \/ sess' = [sess EXCEPT ![i] = ReadFailed(@)]
       ELSE sess' = [sess EXCEPT ![i] = ReadFailed(@)]
  /\ UNCHANGED <<nInst, ssh_sessions, running, ws, reconnect_delay, rpc, sent,
                 slept, fails>>
  /\ UNCHANGED <<endpoint, ws_url>>

\* os.write(self.master_fd, password) succeeded; self.password_sent = True
Injected(s) ==
  [s EXCEPT !.credWrites = @ + 1, !.password_sent = TRUE, !.pc = "fwd96"]

\* os.write raised OSError: the handlers of lines 102-110 set
\* running = False and leave the loop.
InjectFailed(s) == [ReaderStops(s) EXCEPT !.ioFailed = TRUE]

\* time.sleep(0.1); os.write(self.master_fd, password + '\n'); with
\* master_fd None (close() ran meanwhile) os.write raises TypeError, which
\* the handler of lines 107-110 treats alike.
ReaderInject(i) ==
  /\ sess[i].pc = "inject"
  /\ IF sess[i].master_fd = 0
       THEN sess' = [sess EXCEPT ![i] = ReaderStops(@)]
       ELSE \/ sess' = [sess EXCEPT ![i] = Injected(@)]
            \/ sess' = [sess EXCEPT ![i] = InjectFailed(@)]
  /\ UNCHANGED <<nInst, ssh_sessions, running, ws, reconnect_delay, rpc, sent,
                 slept, fails>>
  /\ UNCHANGED <<endpoint, ws_url>>

\* self.on_data(self.session_id, data): _ssh_data_callback
ReaderForward(i) ==
  /\ sess[i].pc \in {"fwd96", "fwd98"}
  /\ sent' = SendMessage(sent)
  /\ sess' = [sess EXCEPT ![i].chunk = "none", ![i].pc = "head"]
  /\ UNCHANGED <<nInst, ssh_sessions, running, ws, reconnect_delay, rpc, slept,
                 fails>>
  /\ UNCHANGED <<endpoint, ws_url>>

\* self.on_close(self.session_id): _ssh_close_callback sends ssh_closed and
\* tests session_id in self.ssh_sessions.
ReaderOnClose(i) ==
  /\ sess[i].pc = "cb"
  /\ sent' = SendMessage(sent)
  /\ sess' = [sess EXCEPT ![i].cbCount = @ + 1,
                          ![i].pc = IF ssh_sessions[sess[i].sid] # 0
                                      THEN "cbdel" ELSE "done"]
  /\ UNCHANGED <<nInst, ssh_sessions, running, ws, reconnect_delay, rpc, slept,
                 fails>>
  /\ UNCHANGED <<endpoint, ws_url>>

\* A callback that leaves the entry in the registry.
ReaderCbKeeps(i) ==
  /\ sess[i].pc = "cbdel"
  /\ sess' = [sess EXCEPT ![i].pc = "done"]
  /\ UNCHANGED <<nInst, ssh_sessions, running, ws, reconnect_delay, rpc, sent,
                 slept, fails>>
  /\ UNCHANGED <<endpoint, ws_url>>

\* del self.ssh_sessions[session_id] (a KeyError ends the thread as well)
ReaderCbDel(i) ==
  /\ sess[i].pc = "cbdel"
  /\ ssh_sessions' = [ssh_sessions EXCEPT ![sess[i].sid] = 0]
  /\ sess' = [sess EXCEPT ![i].pc = "done"]
  /\ UNCHANGED <<nInst, running, ws, reconnect_delay, rpc, sent, slept, fails>>
  /\ UNCHANGED <<endpoint, ws_url>>

\* Steps of the reader threads.
Readers ==
  \/ \E i \in Insts : ReaderRead(i)
  \/ \E i \in Insts : ReaderInject(i)
  \/ \E i \in Insts : ReaderForward(i)
  \/ \E i \in Insts : ReaderOnClose(i)
  \/ \E i \in Insts : ReaderCbDel(i)

\* Steps of the reader threads, with the evaluation of the argument of
\* os.read and the call as two steps.
ReadersFd ==
  \/ \E i \in Insts : ReaderLoadFd(i)
  \/ \E i \in Insts : ReaderReadFd(i)
  \/ \E i \in Insts : ReaderInject(i)
  \/ \E i \in Insts : ReaderForward(i)
  \/ \E i \in Insts : ReaderOnClose(i)
  \/ \E i \in Insts : ReaderCbDel(i)

\* The steps of the reader thread of session i.
ReaderStep(i) ==
  \/ ReaderRead(i)
  \/ ReaderInject(i)
  \/ ReaderForward(i)
  \/ ReaderOnClose(i)
  \/ ReaderCbDel(i)

\* The messages a server sends about the sessions with identifiers in S.
SessionMessages(S, cap) ==
  \/ \E x \in S : MsgOpen(x, cap)
  \/ OpenConnect
  \/ \E x \in S : MsgData(x)
  \/ \E x \in S : MsgResize(x)
  \/ \E x \in S : MsgClose(x)

\* One connection of a server that uses a single session identifier: the
\* first connection attempt, the messages received on it, the reader
\* threads, and the loss of the transport with its cascade.
Next ==
  \/ RunLoopHead
  \/ RunConnect
  \/ OnClose
  \/ SessionMessages({"s1"}, MaxInst)
  \/ \E m \in Envelopes : MsgOther(m)
  \/ Readers

Spec == Init /\ [][Next]_vars

\* One connection with open, data and close messages for one identifier,
\* with every reader thread making progress: a started thread is scheduled,
\* its select returns within the timeout, its sends return.
NextLive ==
  \/ RunLoopHead
  \/ RunConnect
  \/ OnClose
  \/ MsgOpen("s1", MaxInst)
  \/ OpenConnect
  \/ MsgData("s1")
  \/ MsgClose("s1")
  \/ Readers

SpecLive ==
  Init /\ [][NextLive]_vars /\ \A i \in Insts : WF_vars(ReaderStep(i))

\* One connection of a server that asks for sessions with and without a
\* raw TCP target, resizes and closes them.
NextTarget ==
  \/ RunLoopHead
  \/ RunConnect
  \/ OnClose
  \/ \E t \in Targets : MsgOpenTarget("s1", t, MaxInst)
  \/ OpenConnect
  \/ MsgResize("s1")
  \/ MsgClose("s1")
  \/ Readers

SpecTarget == Init /\ [][NextTarget]_vars

\* One connection of a server that opens and closes sessions of one
\* identifier, with the readers' os.read in two steps.
NextFd ==
  \/ RunLoopHead
  \/ RunConnect
  \/ OnClose
  \/ MsgOpen("s1", MaxInst)
  \/ OpenConnect
  \/ MsgClose("s1")
  \/ ReadersFd

SpecFd == Init /\ [][NextFd]_vars

\* The same with more session objects, for the reuse of the identifier.
NextReuse ==
  \/ RunLoopHead
  \/ RunConnect
  \/ OnClose
  \/ SessionMessages({"s1"}, MaxReuse)
  \/ Readers

SpecReuse == Init /\ [][NextReuse]_vars

\* One connection of a server that uses both session identifiers and sends
\* open, data and close messages.
NextTwo ==
  \/ RunLoopHead
  \/ RunConnect
  \/ OnClose
  \/ \E x \in Ids : MsgOpen(x, MaxInst)
  \/ OpenConnect
  \/ \E x \in Ids : MsgData(x)
  \/ \E x \in Ids : MsgClose(x)
  \/ Readers

SpecTwo == Init /\ [][NextTwo]_vars

\* One connection of a server that opens sessions of both identifiers and
\* sends pings, so that readers of different sessions and the run thread
\* write to the transport.
NextOrder ==
  \/ RunLoopHead
  \/ RunConnect
  \/ OnClose
  \/ \E x \in Ids : MsgOpen(x, MaxInst)
  \/ OpenConnect
  \/ \E x \in Ids : MsgClose(x)
  \/ MsgPing
  \/ Readers

SpecOrder == Init /\ [][NextOrder]_vars

\* One connection of a server that also sends open-session messages without
\* a sessionId.
NextNoId ==
  \/ RunLoopHead
  \/ RunConnect
  \/ OnClose
  \/ MsgOpen(NoId, MaxInst)
  \/ SessionMessages({"s1"}, MaxInst)
  \/ Readers

SpecNoId == Init /\ [][NextNoId]_vars

\* One connection on which the server opens and closes a session, sends
\* data to it and pings; the data handler is cut at its os.write.
NextPing ==
  \/ RunLoopHead
  \/ RunConnect
  \/ OnClose
  \/ MsgOpen("s1", MaxInst)
  \/ OpenConnect
  \/ DataWriteBegin("s1")
  \/ DataWriteEnd
  \/ MsgClose("s1")
  \/ MsgPing
  \/ Readers

SpecPing == Init /\ [][NextPing]_vars

\* The reconnect loop: connection attempts, 'connected' and ping messages,
\* transport loss, the backoff sleep and stop().
NextRun ==
  \/ RunLoopHead
  \/ RunConnect
  \/ OnClose
  \/ Backoff
  \/ Stop
  \/ MsgConnected
  \/ MsgPing

SpecRun == Init /\ [][NextRun]_vars

\* run() with any of the configured endpoints.
InitUrl ==
  /\ sess = [i \in Insts |-> FreeSess]
  /\ nInst = 0
  /\ ssh_sessions = [x \in Keys |-> 0]
  /\ running = TRUE
  /\ ws = "none"
  /\ reconnect_delay = InitialDelay
  /\ rpc = "loophead"
  /\ sent = 0
  /\ slept = 0
  /\ fails = 0
  /\ endpoint \in Endpoints
  /\ ws_url = <<>>

SpecUrl == InitUrl /\ [][NextRun]_vars

\* The same, with the run thread making progress: the backoff sleep ends
\* and the loop condition is evaluated.
SpecRunFair == SpecRun /\ WF_vars(Backoff) /\ WF_vars(RunLoopHead)

\* run() from its first line, with either kind of configuration.
NextStart ==
  \/ RunStart
  \/ NextRun

SpecStart == InitStart /\ [][NextStart]_vars

\* Connections one after the other, with the backoff sleep between them,
\* of a server that uses a single session identifier.
NextReconnect ==
  \/ RunLoopHead
  \/ RunConnect
  \/ OnClose
  \/ Backoff
  \/ MsgOpen("s1", MaxInst)
  \/ OpenConnect
  \/ MsgClose("s1")
  \/ Readers

SpecReconnect == Init /\ [][NextReconnect]_vars

\* ================================================================ claims
\* The session object i went through a successful connect().
Started(i) == sess[i].pc \in ReaderPcs \cup {"done"}

\* i is the session the registry holds under its identifier.
Registered(i) == sess[i].pc # "free" /\ ssh_sessions[sess[i].sid] = i

\* The step is _on_close: run_forever ends with the cascade.
CascadeStep == rpc \in {"recv", "connect"} /\ rpc' = "closed"

\* What a step of _on_close does: it empties the registry and calls close()
\* on every session that was registered.
C1_CascadeStepClosesAll ==
  CascadeStep =>
    /\ \A x \in Ids : ssh_sessions'[x] = 0
    /\ \A i \in Insts : Registered(i) =>
         /\ ~sess'[i].running
         /\ sess'[i].master_fd = 0
         /\ sess'[i].pid = 0
         /\ sess'[i].closeCalls = sess[i].closeCalls + 1

\* The registry is empty once _on_close has returned; no close callback
\* runs twice, and that of a session closed by the cascade has run once when
\* its reader has ended.
C1_CallbackOnce ==
  /\ rpc = "closed" => \A x \in Ids : ssh_sessions[x] = 0
  /\ \A i \in Insts :
       /\ sess[i].cbCount <= 1
       /\ sess[i].cascaded /\ sess[i].pc = "done" => sess[i].cbCount = 1

\* C1: on transport loss every registered session is closed by _on_close,
\* the registry is empty as soon as _on_close has returned, and the close
\* callback of each of these sessions fires once, never twice.
C1_TransportLossClosesAllOnce ==
  [][C1_CascadeStepClosesAll]_vars /\ []C1_CallbackOnce

\* Two sessions under two identifiers were closed by the cascade, and the
\* readers of both have run their close callback.
C1_Witness ==
  /\ rpc = "closed"
  /\ \E i, j \in Insts :
       /\ sess[i].sid = "s1" /\ sess[j].sid = "s2"
       /\ sess[i].cascaded /\ sess[j].cascaded
       /\ sess[i].pc = "done" /\ sess[j].pc = "done"
       /\ sess[i].cbCount = 1 /\ sess[j].cbCount = 1

\* The delays of consecutive backoff sleeps.
BackoffSeq == <<5, 10, 20, 40, 60>>
DelayAfter(k) == IF k < Len(BackoffSeq) THEN BackoffSeq[k + 1] ELSE 60

\* C2: the k-th consecutive backoff sleep since the start or since the last
\* 'connected' lasts 5, 10, 20, 40, 60, 60, ... seconds, and after a
\* 'connected' the next one lasts 5 seconds again.
C2_BackoffSequence ==
  /\ reconnect_delay = DelayAfter(fails)
  /\ fails >= 1 => slept = DelayAfter(fails - 1)

\* The delay reached its ceiling and a 'connected' message set it back to 5.
C2_Witness == slept = 60 /\ fails = 0 /\ reconnect_delay = 5 /\ rpc = "recv"

\* In one step: password_sent stays true, the count of credential writes
\* stays at most 1, and it grows only for a prompt chunk read while
\* password_sent was false.
C3_StepInjectsOnce ==
  \A i \in Insts :
    /\ sess[i].password_sent => sess'[i].password_sent
    /\ sess'[i].credWrites <= 1
    /\ sess'[i].credWrites # sess[i].credWrites =>
         /\ sess[i].chunk = "prompt"
         /\ ~sess[i].password_sent
         /\ sess'[i].password_sent

\* C3: the credential is written to the terminal at most once per session,
\* only for a chunk that matches the prompt pattern; password_sent goes from
\* false to true at most once and never back, and a later prompt chunk
\* causes no further write.
C3_CredentialAtMostOnce == [][C3_StepInjectsOnce]_vars

\* A second prompt chunk was read after the credential had been written: it
\* is on its way to the data callback through the else branch.
C3_Witness ==
  \E i \in Insts :
    /\ sess[i].pc = "fwd98" /\ sess[i].chunk = "prompt"
    /\ sess[i].password_sent /\ sess[i].credWrites = 1

\* A step in which the reader of a running session leaves the credential
\* write without having written goes on to forward the prompt chunk, and
\* the session keeps running.
C4_StepInjectFailureKeepsSession ==
  \A i \in Insts :
    ( /\ sess[i].pc = "inject" /\ sess[i].running /\ sess[i].master_fd # 0
      /\ sess'[i].pc # "inject"
      /\ sess'[i].credWrites = sess[i].credWrites )
    => /\ sess'[i].pc \in {"fwd96", "fwd98"}
       /\ sess'[i].chunk = "prompt"
       /\ sess'[i].running

\* C4: when the write of the credential fails in the reader loop, the
\* prompt chunk is still forwarded to the data callback and the session is
\* not closed because of it.
C4_InjectFailureKeepsSession == [][C4_StepInjectFailureKeepsSession]_vars

\* A step that constructs a session object finds that every earlier session
\* of its identifier has sent its ssh_closed.
C5_StepReuseAfterClosed ==
  \A j \in Insts :
    (sess[j].pc = "free" /\ sess'[j].pc = "init") =>
      \A i \in Insts :
        (Started(i) /\ sess[i].sid = sess'[j].sid) => sess[i].cbCount >= 1

\* C5: an open-session message constructs a session for an identifier only
\* when every earlier session of that identifier has emitted its ssh_closed.
C5_ReuseOnlyAfterClosed == [][C5_StepReuseAfterClosed]_vars

\* A session that is active: running, with a live reader and a child.
Active(i) == sess[i].running /\ sess[i].pc \in ReaderPcs /\ sess[i].pid # 0

\* C6: no two active sessions have the same identifier, registered or not.
C6_OneActivePerIdentifier ==
  \A i, j \in Insts :
    (i # j /\ Active(i) /\ Active(j)) => sess[i].sid # sess[j].sid

\* A step of an open-session message for a registered identifier changes
\* nothing, and a step that constructs a session object does so for an
\* identifier that is not registered.
C7_StepDuplicateOpenIgnored ==
  /\ \A x \in Ids :
       (ssh_sessions[x] # 0 /\ \E cap \in {MaxInst, MaxReuse} : MsgOpen(x, cap))
         => UNCHANGED vars
  /\ nInst' # nInst => ssh_sessions[sess'[nInst'].sid] = 0

\* C7: an open-session message for a registered identifier is ignored: no
\* session object, process or reader is created, no frame is written to the
\* transport, and the registry and every session stay as they were.
C7_DuplicateOpenIgnored == [][C7_StepDuplicateOpenIgnored]_vars

\* An identifier is registered, messages are being received and there is
\* room for another session object: a duplicate open-session can arrive.
C7_Witness ==
  /\ Receiving /\ nInst < MaxInst
  /\ \E x \in Ids : ssh_sessions[x] # 0 /\ sess[ssh_sessions[x]].running

\* The lifecycle state of a session object, from its fields: 0 not
\* constructed, 1 Connecting, 2 Active, 3 Closing, 4 Closed.
LifeState(s) ==
  IF s.pc = "free" THEN 0
  ELSE IF s.running THEN 2
  ELSE IF s.pc \in {"init", "nothread"} THEN 1
  ELSE IF s.master_fd = 0 /\ s.pid = 0 /\ s.cbCount >= 1 THEN 4
  ELSE 3

\* What send, resize and close can touch of a session.
Resources(s) ==
  <<s.running, s.master_fd, s.pid, s.winsz, s.password_sent, s.fdReleases,
    s.kills, s.cbCount, s.credWrites>>

\* In one step a session keeps its lifecycle state or moves to the next
\* one, and a Closed session keeps all its resources.
C8_StepLifecycle ==
  \A i \in Insts :
    /\ LifeState(sess'[i]) \in {LifeState(sess[i]), LifeState(sess[i]) + 1}
    /\ LifeState(sess[i]) = 4 => Resources(sess'[i]) = Resources(sess[i])

\* C8: a session's lifecycle state only stays or moves to the next of
\* Connecting, Active, Closing, Closed, none skipped or revisited; a Closed
\* session is changed by no later send, resize or close.
C8_LifecycleInOrder == [][C8_StepLifecycle]_vars

\* A Closed session is still registered while messages are received, so
\* that data, resize and close messages reach it.
C8_Witness ==
  \E i \in Insts :
    /\ LifeState(sess[i]) = 4 /\ Registered(i) /\ Receiving
    /\ sess[i].closeCalls >= 1

\* C9: however often close() is called on a session, its descriptor is
\* released once, its child signalled once, and its close callback runs once.
C9_CloseIdempotent ==
  \A i \in Insts :
    /\ sess[i].fdReleases <= 1 /\ sess[i].kills <= 1 /\ sess[i].cbCount <= 1
    /\ (Started(i) /\ sess[i].closeCalls >= 1) =>
         /\ sess[i].fdReleases = 1 /\ sess[i].kills = 1
         /\ sess[i].master_fd = 0 /\ sess[i].pid = 0 /\ ~sess[i].running
    /\ sess[i].pc = "done" => sess[i].cbCount = 1

\* close() ran twice on a session whose reader has finished.
C9_Witness ==
  \E i \in Insts :
    /\ sess[i].closeCalls = 2 /\ sess[i].pc = "done"
    /\ sess[i].fdReleases = 1 /\ sess[i].kills = 1 /\ sess[i].cbCount = 1

\* C10: a session that is destroyed (its close callback has run and the
\* registry no longer holds it) has released its descriptor and terminated
\* its child.
C10_DestroyedReleased ==
  \A i \in Insts :
    (sess[i].pc = "done" /\ ~Registered(i)) =>
      /\ sess[i].master_fd = 0 /\ sess[i].fdReleases = 1
      /\ sess[i].pid = 0 /\ sess[i].kills = 1

\* When the handler of an open-session message without sessionId returns,
\* the session object it made has no child, no descriptor and no reader,
\* the registry is as before and no frame was written to the transport.
C11_StepNoIdOpenDiscarded ==
  (rpc = "opening" /\ sess[nInst].sid = NoId /\ rpc' = "recv") =>
    /\ sess'[nInst].pid = 0 /\ sess'[nInst].master_fd = 0
    /\ ~sess'[nInst].running /\ sess'[nInst].pc \notin ReaderPcs
    /\ ssh_sessions' = ssh_sessions
    /\ sent' = sent
    /\ Receiving'

\* C11: an open-session message without sessionId is discarded: no process
\* is spawned, no reader is started, nothing is sent to the server, and the
\* connection goes on receiving.
C11_NoIdOpenDiscarded == [][C11_StepNoIdOpenDiscarded]_vars

\* A step that a message without a handled type, or a data message whose
\* payload does not decode, can take changes nothing.
C12_StepBadMessageDiscarded ==
  ( \/ \E m \in Envelopes : MsgOther(m)
    \/ \E x \in Ids : DataMessage(x, "badpad") )
  => UNCHANGED vars

\* C12: a message that is not valid JSON, has an unrecognized type or
\* carries an undecodable base64 payload is discarded: the registry, every
\* session, the reconnect delay and the position of the receive loop are
\* unchanged, so that the next message is dispatched.
C12_BadMessageDiscarded == [][C12_StepBadMessageDiscarded]_vars

\* Messages are being received and a running session is registered: a data
\* message with an undecodable payload addressed to it can arrive.
C12_Witness ==
  /\ Receiving
  /\ \E x \in Ids : ssh_sessions[x] # 0 /\ CanSend(sess[ssh_sessions[x]])

\* C13: a close message addressed to an identifier that is not in the
\* registry is logged with a warning (the close, data and resize messages
\* for such an identifier change no state and send nothing: the branches
\* of MsgClose, DataMessage and MsgResize for an absent key).
C13_UnknownCloseWarns ==
  \A x \in Keys : (Receiving /\ ssh_sessions[x] = 0) => "warning" \in CloseLogs(x)

\* When the handler of an open-session message returns without having
\* registered the session, it has written one frame (ssh_error) to the
\* transport, the registry is as before, and the session has no child, no
\* descriptor and no reader.
C14_StepOpenFailureReported ==
  ( /\ rpc = "opening" /\ rpc' = "recv"
    /\ ssh_sessions'[sess[nInst].sid] # nInst )
  => /\ sent' = (sent + 1) % 2
     /\ ssh_sessions' = ssh_sessions
     /\ sess'[nInst].pid = 0 /\ sess'[nInst].master_fd = 0
     /\ ~sess'[nInst].running /\ sess'[nInst].pc \notin ReaderPcs

\* C14: when SSHSession.connect returns False, one ssh_error is emitted,
\* the session is not registered, and neither a reader nor a child of it
\* remains.
C14_OpenFailureReported == [][C14_StepOpenFailureReported]_vars

\* The steps taken for a session because an os.read or os.write of it
\* failed (the failing call with its handler, and the later steps of its
\* reader, which end with the close callback) leave every other session
\* object, the registry entries that hold other sessions and the control
\* connection as they were, and the callback has reported the session when
\* its reader ends.
C15_StepFailureIsLocal ==
  \A i \in Insts :
    ( /\ sess'[i].ioFailed
      /\ ~sess[i].ioFailed \/ sess'[i].pc # sess[i].pc )
    => /\ \A j \in Insts \ {i} : sess'[j] = sess[j]
       /\ \A x \in Ids : ssh_sessions[x] # i => ssh_sessions'[x] = ssh_sessions[x]
       /\ ws' = ws /\ rpc' = rpc /\ running' = running
       /\ reconnect_delay' = reconnect_delay
       /\ sess'[i].pc = "done" => sess'[i].cbCount = 1

\* C15: a read failure, EOF or write failure on a session closes that
\* session only and is reported with ssh_closed for it: the running flag,
\* descriptor, child and registry entry of every other session, and the
\* control connection, are unchanged by it.
C15_FailureIsLocal == [][C15_StepFailureIsLocal]_vars

\* C16: a ping is answered with a pong that reaches the transport even
\* while a session's data write is pending: whenever the connection is
\* open, the handler of a ping can run and write its frame.
C16_PongNotBlockedByWrite ==
  (ws = "open" /\ rpc \in {"recv", "writing"}) => ENABLED MsgPing

\* C17: once the stop flag is set no new connection attempt is started (so
\* that the reconnect loop, the receive loop and the readers end): the run
\* thread does not go from the creation of the WebSocketApp into
\* run_forever with running False.
C17_NoAttemptAfterStop ==
  [][~running => ~(rpc = "connect" /\ rpc' # "connect")]_vars

\* C18: while the stop flag is unset, every disconnect or failed attempt is
\* followed by a new connection attempt, and the run loop ends only when
\* the flag is set.
C18_AlwaysRetries ==
  /\ [](rpc = "ended" => ~running)
  /\ (rpc = "closed" /\ running) ~> (rpc = "connect" \/ ~running)

\* A connection attempt that follows two failed ones.
C18_Witness == rpc = "connect" /\ running /\ fails >= 2 /\ slept = 10

\* C19: with no bearer token configured the run loop has not ended; it
\* waits for a token to resume (run() returns only after stop()).
C19_WaitsForToken == rpc \in {"notoken", "ended"} => ~running

\* C20: when a connection attempt begins the registry is empty and no
\* session of an earlier connection is still active.
C20_CleanAtReconnect ==
  rpc = "connect" =>
    /\ \A x \in Keys : ssh_sessions[x] = 0
    /\ \A i \in Insts : ~Active(i)

\* The close callback of a session that the cascade of _on_close closed
\* writes no frame to the transport.
C21_StepCascadeSilent ==
  \A i \in Insts :
    (sess[i].cascaded /\ sess'[i].cbCount # sess[i].cbCount) => sent' = sent

\* C21: for a session closed by the transport-loss cascade no ssh_closed
\* is written to any connection, neither the lost one nor the next.
C21_CascadeSilent == [][C21_StepCascadeSilent]_vars

\* C22: no removal from the registry fails on an entry that another thread
\* removed between the membership test and the access: when a reader is
\* about to execute the del of _ssh_close_callback, the entry it tested is
\* in the registry.
C22_NoLostEntry ==
  \A i \in Insts : sess[i].pc = "cbdel" => ssh_sessions[sess[i].sid] # 0

\* In one step of a session: a chunk is read only at the head of the loop,
\* when every chunk read before has left the reader and the close callback
\* has not run; a data frame is written for the chunk the reader holds,
\* which it then holds no more; the close callback runs with no chunk held,
\* and after it the reader neither reads nor forwards.
C24_StepInOrder ==
  \A i \in Insts :
    /\ (sess'[i].chunk # sess[i].chunk /\ sess'[i].chunk # "none") =>
         /\ sess[i].chunk = "none" /\ sess[i].pc = "head"
         /\ sess[i].cbCount = 0
    /\ (sess[i].pc \in {"fwd96", "fwd98"} /\ sess'[i].pc # sess[i].pc) =>
         /\ sess[i].chunk # "none" /\ sess'[i].chunk = "none"
         /\ sess[i].cbCount = 0
         /\ ws = "open" => sent' # sent
    /\ sess'[i].cbCount # sess[i].cbCount => sess[i].chunk = "none"
    /\ sess[i].cbCount >= 1 =>
         sess'[i].chunk = "none" /\ sess'[i].pc \in {"cbdel", "done"}

\* C24: the data frames of a session are written in the order its reader
\* read the chunks (each is written before the next chunk is read, whatever
\* other readers and the dispatch do meanwhile), and its ssh_closed is
\* written after all of them.
C24_DataInOrder == [][C24_StepInOrder]_vars

\* The readers of two sessions each hold a chunk to forward, after a frame
\* was written already.
C24_Witness ==
  \E i, j \in Insts :
    /\ i # j /\ sent = 1
    /\ sess[i].pc \in {"fwd96", "fwd98"} /\ sess[j].pc \in {"fwd96", "fwd98"}

C26_RawSocketSession ==
  \A i \in Insts :
    sess[i].target = "hostport" =>
      sess[i].pid = 0 /\ sess[i].credWrites = 0 /\ sess[i].winsz = 0

\* The endpoint with its scheme changed: http to ws, https to wss.
SchemeChanged(e) ==
  <<IF Head(e) = "https:" THEN "wss:" ELSE "ws:">> \o Tail(e)

\* The endpoint without its last path segment when that segment is "/api".
TrailingApiRemoved(e) ==
  IF Len(e) >= 2 /\ SubSeq(e, Len(e) - 1, Len(e)) = <<"/", "api">>
         /\ e[Len(e) - 2] # "/"
    THEN SubSeq(e, 1, Len(e) - 2)
    ELSE e

\* C27: the connection URL is the endpoint with only its scheme changed and
\* only a trailing API path segment removed, followed by
\* '/ws?type=agent&token=<token>'; the host name and every other part of the
\* path are kept.
C27_UrlKeepsHostAndPath ==
  ws_url # <<>> =>
    ws_url = TrailingApiRemoved(SchemeChanged(endpoint))
               \o <<"/", "ws?type=agent&token=", Token>>

\* A step in which a reader lets go of the chunk it read is the step that
\* passes the chunk to the data callback.
C28_StepChunkForwarded ==
  \A i \in Insts :
    (sess[i].chunk # "none" /\ sess'[i].chunk = "none")
      => /\ sess[i].pc \in {"fwd96", "fwd98"}
         /\ sess'[i].credWrites = sess[i].credWrites

\* C28: every chunk the reader loop reads is passed to the data callback
\* exactly once and unchanged, whether or not it triggered the credential
\* injection, and the step that passes it writes no credential.
C28_EveryChunkForwarded == [][C28_StepChunkForwarded]_vars

\* A step in which the close callback of a session object ends changes no
\* registry entry but one that holds this object.
C29_StepRemovesOwnEntry ==
  \A i \in Insts :
    (sess[i].pc \in {"cb", "cbdel"} /\ sess'[i].pc = "done")
      => \A x \in Keys :
           ssh_sessions'[x] # ssh_sessions[x] => ssh_sessions[x] = i

\* C29: the close callback of a session object removes only that object
\* from the registry: an object registered later under the same identifier
\* stays registered.
C29_CallbackRemovesOwnEntry == [][C29_StepRemovesOwnEntry]_vars

\* A step in which the os.read of a reader returns a chunk reads the
\* descriptor the session still holds.
C30_StepReadsOwnDescriptor ==
  \A i \in Insts :
    (sess[i].pc = "read" /\ sess'[i].chunk # "none")
      => /\ sess[i].master_fd = sess[i].fdArg
         /\ \A j \in Insts : j # i => sess[j].master_fd # sess[i].fdArg

\* C30: no session reads a descriptor after its close() released it: with
\* close() on the run thread between the steps of the reader, and a later
\* session that gets the same descriptor number, a reader never reads a
\* descriptor that belongs to another session.
C30_NoUseAfterRelease == [][C30_StepReadsOwnDescriptor]_vars

====
